---- MODULE Spec2Model ----
(***************************************************************************)
(* The request handlers of routes/users.js and routes/tweets.js over the   *)
(* User and Tweet collections.  Every await of a handler is one atomic     *)
(* step on the document store; between two awaits of one request the      *)
(* steps of other requests may run.                                        *)
(***************************************************************************)
EXTENDS Integers, Sequences, FiniteSets, TLC

VARIABLES users, tweets, nextId, reqs, resp

vars == <<users, tweets, nextId, reqs, resp>>

\* ------------------------------------------------------------------ bounds

\* Requests that may be in flight (awaiting the store) at the same time.
MaxReq == 2

\* Tweets ever created in one run.
MaxTweets == 3

\* Cap on a tweet's __v counter (one increment per saved like/retweet).
MaxVersion == 2

\* Tweets in the collection a timeline is read from.
MaxFeed == 12

\* Largest page number a client asks for.
MaxPage == 3

\* ------------------------------------------------------------- identifiers

\* _id of the stored users, as ObjectId.toString() prints them (lower case).
UserIds == {"a1", "b2"}

\* Values a client may put in the :id segment of /users/:id/follow: the hex
\* string of a stored user as printed, the same hex string in upper case,
\* and a well-formed id of no user.
FollowParams == {"a1", "A1", "b2", "c3"}

CastError == "CastError"

\* The ObjectId a 24-hex-digit string casts to, printed back as a string:
\* hex digits are read case-insensitively and printed in lower case.
castObjectId(s) ==
  CASE s \in {"a1", "A1"} -> "a1"
    [] s \in {"b2", "B2"} -> "b2"
    [] s \in {"c3", "C3"} -> "c3"
    [] OTHER -> CastError

username(u) == CASE u = "a1" -> "alice" [] u = "b2" -> "bob" [] OTHER -> "nobody"

\* ------------------------------------------------------------ list helpers

Range(s) == {s[i] : i \in 1..Len(s)}

NoDuplicates(s) == \A i, j \in 1..Len(s) : s[i] = s[j] => i = j

\* Array.prototype.includes on a Mongoose array of ObjectIds with a string
\* argument: obj == this[i], which compares obj with this[i].toString().
includes(arr, str) == \E i \in 1..Len(arr) : str = arr[i]

\* Mongo $addToSet: appends the value unless the array already holds it.
addToSet(arr, v) == IF v \in Range(arr) THEN arr ELSE Append(arr, v)

\* Mongo $pull: removes every element equal to the value.
pull(arr, v) == SelectSeq(arr, LAMBDA x : x # v)

\* -------------------------------------------------------------- requests

Slots == 1..MaxReq

\* What a handler keeps of the tweet it read with findById.
NoDoc == [user |-> "", likes |-> <<>>, retweets |-> <<>>, v |-> 0]

Idle == [op |-> "idle", pc |-> "", user |-> "", following |-> <<>>, id |-> "",
         isFollowing |-> FALSE, tid |-> 0, content |-> 0, doc |-> NoDoc]

\* resp is the response the last step sent, NoResp when it sent none.
NoResp == [op |-> "none", status |-> 0, user |-> "", id |-> "", tid |-> 0,
           page |-> 0, flag |-> FALSE, list |-> <<>>]

\* The slot a new request takes: the lowest idle one.
FreeSlot(s) ==
  /\ reqs[s].op = "idle"
  /\ \A t \in Slots : t < s => reqs[t].op # "idle"

\* A response of the users router: id is the path segment of the request.
Response(op, status, user, id, flag, list) ==
  [op |-> op, status |-> status, user |-> user, id |-> id, tid |-> 0,
   page |-> 0, flag |-> flag, list |-> list]

\* A response of the tweets router: tid is the :id of the request, user the
\* userId of the body (like and retweet), list the ids of the tweets sent.
TweetResponse(op, status, user, tid, flag, list) ==
  [op |-> op, status |-> status, user |-> user, id |-> "", tid |-> tid,
   page |-> 0, flag |-> flag, list |-> list]

\* --------------------------------------------------------- users router

\* The routes of the users router in registration order; a segment that
\* starts with ':' matches any single segment.
usersRouter == <<
  [method |-> "GET",  path |-> <<"me">>,                  handler |-> "me"],
  [method |-> "GET",  path |-> <<":username">>,           handler |-> "username"],
  [method |-> "PUT",  path |-> <<"me">>,                  handler |-> "updateMe"],
  [method |-> "PUT",  path |-> <<"me", "profile-image">>, handler |-> "profileImage"],
  [method |-> "PUT",  path |-> <<"me", "cover-image">>,   handler |-> "coverImage"],
  [method |-> "POST", path |-> <<":id", "follow">>,       handler |-> "follow"],
  [method |-> "GET",  path |-> <<"suggestions">>,         handler |-> "suggestions"] >>

isParam(seg) == seg \in {":username", ":id"}

matches(route, method, path) ==
  /\ route.method = method
  /\ Len(route.path) = Len(path)
  /\ \A i \in 1..Len(path) : isParam(route.path[i]) \/ route.path[i] = path[i]

\* Express runs the first registered route that matches the request.
dispatch(router, method, path) ==
  LET hits == {i \in 1..Len(router) : matches(router[i], method, path)}
  IN  IF hits = {} THEN "none"
      ELSE router[CHOOSE i \in hits : \A j \in hits : i <= j].handler

\* The users as registration leaves them.
InitUsers == [u \in UserIds |-> [following |-> <<>>, followers |-> <<>>]]

\* ------------------------------------------------------- follow / unfollow

\* The auth middleware loads the caller's user document into req.user.
authUser(u) == [id |-> u, following |-> users[u].following]

FollowAuth(s, caller, id) ==
  /\ FreeSlot(s)
  /\ dispatch(usersRouter, "POST", <<id, "follow">>) = "follow"
  /\ reqs' = [reqs EXCEPT ![s] =
       [Idle EXCEPT !.op = "follow", !.pc = "find", !.user = authUser(caller).id,
                    !.following = authUser(caller).following, !.id = id]]
  /\ resp' = NoResp
  /\ UNCHANGED <<users, tweets, nextId>>

\* req.params.id === req.user.id, then User.findById(req.params.id) and the
\* membership test on the following list attached by auth.
FollowFind(s) ==
  LET r == reqs[s] IN
  /\ r.op = "follow" /\ r.pc = "find"
  /\ IF r.id = r.user
       THEN /\ resp' = Response("follow", 400, r.user, r.id, FALSE, <<>>)
            /\ reqs' = [reqs EXCEPT ![s] = Idle]
     ELSE IF castObjectId(r.id) = CastError
       THEN /\ resp' = Response("follow", 500, r.user, r.id, FALSE, <<>>)
            /\ reqs' = [reqs EXCEPT ![s] = Idle]
     ELSE IF castObjectId(r.id) \notin UserIds
       THEN /\ resp' = Response("follow", 404, r.user, r.id, FALSE, <<>>)
            /\ reqs' = [reqs EXCEPT ![s] = Idle]
     ELSE /\ reqs' = [reqs EXCEPT ![s].pc = "first",
                                  ![s].isFollowing = includes(r.following, r.id)]
          /\ resp' = NoResp
  /\ UNCHANGED <<users, tweets, nextId>>

\* First update: $pull / $addToSet on the caller's following list.
FollowFirstUpdate(s) ==
  LET r == reqs[s]
      target == castObjectId(r.id) IN
  /\ r.op = "follow" /\ r.pc = "first"
  /\ users' = [users EXCEPT ![r.user].following =
       IF r.isFollowing THEN pull(@, target) ELSE addToSet(@, target)]
  /\ reqs' = [reqs EXCEPT ![s].pc = "second"]
  /\ resp' = NoResp
  /\ UNCHANGED <<tweets, nextId>>

\* Second update: $pull / $addToSet on the target's followers list, then
\* the response.
FollowSecondUpdate(s) ==
  LET r == reqs[s]
      target == castObjectId(r.id) IN
  /\ r.op = "follow" /\ r.pc = "second"
  /\ users' = [users EXCEPT ![target].followers =
       IF r.isFollowing THEN pull(@, r.user) ELSE addToSet(@, r.user)]
  /\ resp' = Response("follow", 200, r.user, r.id, ~r.isFollowing, <<>>)
  /\ reqs' = [reqs EXCEPT ![s] = Idle]
  /\ UNCHANGED <<tweets, nextId>>

\* --------------------------------------------------------- GET /users/...

\* First n elements of a sequence (Mongo limit).
limit(s, n) == IF Len(s) <= n THEN s ELSE SubSeq(s, 1, n)

\* Store-default order of the User collection.
userOrder == <<"a1", "b2">>

SuggestionsLimit == 5

\* User.find({_id: {$nin: [...req.user.following, req.user.id]}}).limit(5)
suggestions(reqUser) ==
  limit(SelectSeq(userOrder,
          LAMBDA u : u \notin (Range(reqUser.following) \cup {reqUser.id})),
        SuggestionsLimit)

\* User.findOne({ username })
findOneByUsername(name) ==
  LET hits == {u \in UserIds : username(u) = name}
  IN  IF hits = {} THEN <<>> ELSE <<CHOOSE u \in hits : TRUE>>

UsersPaths == {<<"me">>, <<"suggestions">>, <<"alice">>}

\* A GET on the users router, answered by the handler the router picks.
UsersGet(caller, path) ==
  LET h == dispatch(usersRouter, "GET", path) IN
  /\ resp' =
       CASE h = "me" -> Response("me", 200, caller, path[1], FALSE, <<caller>>)
         [] h = "username" ->
              IF findOneByUsername(path[1]) = <<>>
                THEN Response("username", 404, caller, path[1], FALSE, <<>>)
                ELSE Response("username", 200, caller, path[1], FALSE,
                              findOneByUsername(path[1]))
         [] h = "suggestions" ->
              Response("suggestions", 200, caller, path[1], FALSE,
                       suggestions(authUser(caller)))
         [] OTHER -> Response("none", 404, caller, path[1], FALSE, <<>>)
  /\ UNCHANGED <<users, tweets, nextId, reqs>>

\* ------------------------------------------------------------------ tweets

\* Values a client may put in the :id segment of a tweets route: 0 stands
\* for a string that is no ObjectId, the others for well-formed ids (of a
\* stored tweet, a deleted one, or none).
TweetParams == 0..MaxTweets

isObjectId(tid) == tid # 0

\* Content lengths a client sends: empty or missing, the longest the schema
\* allows, and one more.
MaxLength == 280

ContentLengths == {0, MaxLength, MaxLength + 1}

noValidation(content) == FALSE

\* body('content').not().isEmpty()
validationErrors(content) == content = 0

\* TweetSchema: content is required with maxlength 280, user is required.
schemaValid(user, content) == user # "" /\ content >= 1 /\ content <= MaxLength

newTweetNoFlag(user, content, parent, isReply) ==
  [user |-> user, content |-> content, likes |-> <<>>, retweets |-> <<>>,
   parent |-> parent, isReply |-> FALSE, createdAt |-> nextId, v |-> 0]

\* parent 0 is a tweet with no parent field; isReply defaults to false.
newTweet(user, content, parent, isReply) ==
  [user |-> user, content |-> content, likes |-> <<>>, retweets |-> <<>>,
   parent |-> parent, isReply |-> isReply, createdAt |-> nextId, v |-> 0]

stored(tid) == tid \in DOMAIN tweets

\* Ids still free once every reply in flight has saved its tweet.
roomToCreate == nextId + Cardinality({s \in Slots : reqs[s].op = "reply"}) <= MaxTweets

\* Model.prototype.save of a new document: schema validation, then insert.
insert(tweet) == (nextId :> tweet) @@ tweets

deleteCascade(tid) ==
  [t \in {x \in DOMAIN tweets : x # tid /\ tweets[x].parent # tid} |-> tweets[t]]

\* document.deleteOne(): removes the document with that _id, if any.
deleteOne(tid) == [t \in DOMAIN tweets \ {tid} |-> tweets[t]]

\* .sort({ createdAt: -1 }) over a set of stored tweets.
RECURSIVE sortNewestFirst(_)
sortNewestFirst(S) ==
  IF S = {} THEN <<>>
  ELSE LET m == CHOOSE x \in S : \A y \in S : tweets[y].createdAt <= tweets[x].createdAt
       IN  <<m>> \o sortNewestFirst(S \ {m})

\* POST /tweets
PostTweet(caller, content) ==
  /\ roomToCreate
  /\ IF validationErrors(content)
       THEN /\ resp' = TweetResponse("post", 400, "", 0, FALSE, <<>>)
            /\ UNCHANGED <<tweets, nextId>>
     ELSE IF ~schemaValid(caller, content)
       THEN /\ resp' = TweetResponse("post", 500, "", 0, FALSE, <<>>)
            /\ UNCHANGED <<tweets, nextId>>
     ELSE /\ tweets' = insert(newTweet(caller, content, 0, FALSE))
          /\ nextId' = nextId + 1
          /\ resp' = TweetResponse("post", 200, "", 0, FALSE, <<nextId>>)
  /\ UNCHANGED <<users, reqs>>

\* The answer of GET /tweets/:id: the tweet, or 404 for a null result and
\* for a CastError.
getTweet(tid) ==
  IF isObjectId(tid) /\ stored(tid)
    THEN TweetResponse("get", 200, "", tid, FALSE, <<tid>>)
    ELSE TweetResponse("get", 404, "", tid, FALSE, <<>>)

\* GET /tweets/:id
GetTweet(tid) ==
  /\ resp' = getTweet(tid)
  /\ UNCHANGED <<users, tweets, nextId, reqs>>

\* Tweet.find({ parent: id, isReply: true }).sort({ createdAt: -1 })
replies(tid) ==
  sortNewestFirst({t \in DOMAIN tweets : tweets[t].parent = tid /\ tweets[t].isReply})

\* GET /tweets/:id/replies
GetReplies(tid) ==
  /\ resp' = IF isObjectId(tid)
               THEN TweetResponse("replies", 200, "", tid, FALSE, replies(tid))
               ELSE TweetResponse("replies", 404, "", tid, FALSE, <<>>)
  /\ UNCHANGED <<users, tweets, nextId, reqs>>

anyoneOwns(tweet, caller) == TRUE

\* tweet.user.toString() !== req.user.id
isOwner(tweet, caller) == tweet.user = caller

\* DELETE /tweets/:id, up to the ownership check.
DeleteFind(s, caller, tid) ==
  /\ FreeSlot(s)
  /\ IF ~isObjectId(tid) \/ ~stored(tid)
       THEN /\ resp' = TweetResponse("delete", 404, "", tid, FALSE, <<>>)
            /\ UNCHANGED reqs
     ELSE IF ~isOwner(tweets[tid], caller)
       THEN /\ resp' = TweetResponse("delete", 401, "", tid, FALSE, <<>>)
            /\ UNCHANGED reqs
     ELSE /\ reqs' = [reqs EXCEPT ![s] =
                 [Idle EXCEPT !.op = "delete", !.pc = "deleteOne", !.user = caller,
                              !.tid = tid]]
          /\ resp' = NoResp
  /\ UNCHANGED <<users, tweets, nextId>>

\* DELETE /tweets/:id: tweet.deleteOne() and the response.
DeleteOne(s) ==
  LET r == reqs[s] IN
  /\ r.op = "delete" /\ r.pc = "deleteOne"
  /\ tweets' = deleteOne(r.tid)
  /\ resp' = TweetResponse("delete", 200, "", r.tid, FALSE, <<>>)
  /\ reqs' = [reqs EXCEPT ![s] = Idle]
  /\ UNCHANGED <<users, nextId>>

\* POST /tweets/:id/reply, up to the lookup of the parent.
ReplyFind(s, caller, tid, content) ==
  /\ FreeSlot(s)
  /\ roomToCreate
  /\ IF validationErrors(content)
       THEN /\ resp' = TweetResponse("reply", 400, "", tid, FALSE, <<>>)
            /\ UNCHANGED reqs
     ELSE IF ~isObjectId(tid) \/ ~stored(tid)
       THEN /\ resp' = TweetResponse("reply", 404, "", tid, FALSE, <<>>)
            /\ UNCHANGED reqs
     ELSE /\ reqs' = [reqs EXCEPT ![s] =
                 [Idle EXCEPT !.op = "reply", !.pc = "save", !.user = caller,
                              !.tid = tid, !.content = content]]
          /\ resp' = NoResp
  /\ UNCHANGED <<users, tweets, nextId>>

\* POST /tweets/:id/reply: newReply.save() and the response.
ReplySave(s) ==
  LET r == reqs[s] IN
  /\ r.op = "reply" /\ r.pc = "save"
  /\ IF schemaValid(r.user, r.content)
       THEN /\ tweets' = insert(newTweet(r.user, r.content, r.tid, TRUE))
            /\ nextId' = nextId + 1
            /\ resp' = TweetResponse("reply", 200, "", r.tid, FALSE, <<nextId>>)
       ELSE /\ resp' = TweetResponse("reply", 500, "", r.tid, FALSE, <<>>)
            /\ UNCHANGED <<tweets, nextId>>
  /\ reqs' = [reqs EXCEPT ![s] = Idle]
  /\ UNCHANGED users

\* --------------------------------------------------------- like / retweet

toggleAppends(list, uid) ==
  IF includes(list, uid) THEN SelectSeq(list, LAMBDA x : x # uid)
  ELSE list \o <<uid>>

\* The list a handler computes from the array it read: filter out the
\* caller if includes() finds it, unshift the caller otherwise.
toggle(list, uid) ==
  IF includes(list, uid) THEN SelectSeq(list, LAMBDA x : x # uid)
  ELSE <<uid>> \o list

\* Tweet.findById(req.params.id) of the like and retweet handlers.
ToggleFind(s, op, caller, tid) ==
  /\ FreeSlot(s)
  /\ stored(tid) => tweets[tid].v < MaxVersion
  /\ IF ~isObjectId(tid) \/ ~stored(tid)
       THEN /\ resp' = TweetResponse(op, 404, caller, tid, FALSE, <<>>)
            /\ UNCHANGED reqs
     ELSE /\ reqs' = [reqs EXCEPT ![s] =
                 [Idle EXCEPT !.op = op, !.pc = "save", !.user = caller, !.tid = tid,
                              !.doc = [user |-> tweets[tid].user,
                                       likes |-> tweets[tid].likes,
                                       retweets |-> tweets[tid].retweets,
                                       v |-> tweets[tid].v]]]
          /\ resp' = NoResp
  /\ UNCHANGED <<users, tweets, nextId>>

saveUnversioned(tid, doc) == stored(tid)

\* tweet.save() of a loaded document whose array was replaced or unshifted:
\* Mongoose sends the whole array in a $set with __v in the filter and an
\* increment of __v, and throws a VersionError if no document matched.
saveMatches(tid, doc) == stored(tid) /\ tweets[tid].v = doc.v

\* POST /tweets/:id/like: the in-memory toggle, tweet.save(), the response.
LikeSave(s) ==
  LET r == reqs[s]
      isLiked == includes(r.doc.likes, r.user) IN
  /\ r.op = "like" /\ r.pc = "save"
  /\ IF saveMatches(r.tid, r.doc)
       THEN /\ tweets' = [tweets EXCEPT ![r.tid].likes = toggle(r.doc.likes, r.user),
                                        ![r.tid].v = @ + 1]
            /\ resp' = TweetResponse("like", 200, r.user, r.tid, ~isLiked, <<>>)
       ELSE /\ resp' = TweetResponse("like", 500, r.user, r.tid, FALSE, <<>>)
            /\ UNCHANGED tweets
  /\ reqs' = [reqs EXCEPT ![s] = Idle]
  /\ UNCHANGED <<users, nextId>>

\* POST /tweets/:id/retweet: the same over the retweets array.
RetweetSave(s) ==
  LET r == reqs[s]
      isRetweeted == includes(r.doc.retweets, r.user) IN
  /\ r.op = "retweet" /\ r.pc = "save"
  /\ IF saveMatches(r.tid, r.doc)
       THEN /\ tweets' = [tweets EXCEPT ![r.tid].retweets = toggle(r.doc.retweets, r.user),
                                        ![r.tid].v = @ + 1]
            /\ resp' = TweetResponse("retweet", 200, r.user, r.tid, ~isRetweeted, <<>>)
       ELSE /\ resp' = TweetResponse("retweet", 500, r.user, r.tid, FALSE, <<>>)
            /\ UNCHANGED tweets
  /\ reqs' = [reqs EXCEPT ![s] = Idle]
  /\ UNCHANGED <<users, nextId>>

LikeFind(s, caller, tid) == ToggleFind(s, "like", caller, tid)

RetweetFind(s, caller, tid) == ToggleFind(s, "retweet", caller, tid)

\* ----------------------------------------------------- like specification

\* One tweet posted by a1, not yet liked or retweeted.
InitLike ==
  /\ users = InitUsers
  /\ tweets = (1 :> [user |-> "a1", content |-> MaxLength, likes |-> <<>>,
                     retweets |-> <<>>, parent |-> 0, isReply |-> FALSE,
                     createdAt |-> 1, v |-> 0])
  /\ nextId = 2
  /\ reqs = [s \in Slots |-> Idle]
  /\ resp = NoResp

NextLike ==
  \/ \E s \in Slots, caller \in UserIds, tid \in 0..nextId : LikeFind(s, caller, tid)
  \/ \E s \in Slots : LikeSave(s)
  \/ \E s \in Slots, caller \in UserIds, tid \in 0..nextId : RetweetFind(s, caller, tid)
  \/ \E s \in Slots : RetweetSave(s)

SpecLike == InitLike /\ [][NextLike]_vars

\* --------------------------------------------------- delete specification

\* The same tweet, with likes, deletes and reads of it in flight together.
NextDelete ==
  \/ \E s \in Slots, caller \in UserIds, tid \in 0..nextId : LikeFind(s, caller, tid)
  \/ \E s \in Slots : LikeSave(s)
  \/ \E s \in Slots, caller \in UserIds, tid \in 0..nextId : DeleteFind(s, caller, tid)
  \/ \E s \in Slots : DeleteOne(s)
  \/ \E tid \in 0..nextId : GetTweet(tid)

SpecDelete == InitLike /\ [][NextDelete]_vars

\* --------------------------------------------------- tweets specification

\* The users who post and who reply in this specification; every user
\* deletes.
Posters == {"a1"}

Repliers == {"b2"}

InitTweets ==
  /\ users = InitUsers
  /\ tweets = <<>>
  /\ nextId = 1
  /\ reqs = [s \in Slots |-> Idle]
  /\ resp = NoResp

NextTweets ==
  \/ \E caller \in Posters, content \in ContentLengths : PostTweet(caller, content)
  \/ \E s \in Slots, caller \in Repliers, tid \in 0..nextId, content \in ContentLengths :
       ReplyFind(s, caller, tid, content)
  \/ \E s \in Slots : ReplySave(s)
  \/ \E s \in Slots, caller \in UserIds, tid \in 0..nextId : DeleteFind(s, caller, tid)
  \/ \E s \in Slots : DeleteOne(s)
  \/ \E tid \in 0..nextId : GetReplies(tid)

SpecTweets == InitTweets /\ [][NextTweets]_vars

\* ---------------------------------------------------------------- timeline

\* const limit = 10
PageLimit == 10

\* parseInt(req.query.page) || 1, for a query value q where 0 stands for a
\* missing page, "0" and text that is no number.
pageOf(q) == IF q = 0 THEN 1 ELSE q

skipTwice(page) == page * PageLimit

\* const skip = (page - 1) * limit
skipOf(page) == (page - 1) * PageLimit

\* Mongo skip: the sequence without its first n elements.
skip(s, n) == IF n >= Len(s) THEN <<>> ELSE SubSeq(s, n + 1, Len(s))

\* The filter of the timeline query.
inTimeline(reqUser, tweet) ==
  /\ \/ tweet.user \in Range(reqUser.following) \cup {reqUser.id}
     \/ reqUser.id \in Range(tweet.retweets)
  /\ tweet.isReply = FALSE

\* Tweet.find({...}).sort({ createdAt: -1 }).skip(skip).limit(limit)
timeline(reqUser, q) ==
  limit(skip(sortNewestFirst({t \in DOMAIN tweets : inTimeline(reqUser, tweets[t])}),
             skipOf(pageOf(q))),
        PageLimit)

\* GET /tweets
Timeline(caller, q) ==
  /\ resp' = [TweetResponse("timeline", 200, caller, 0, FALSE,
                            timeline(authUser(caller), q)) EXCEPT !.page = q]
  /\ UNCHANGED <<users, tweets, nextId, reqs>>

\* ------------------------------------------------- timeline specification

\* What a tweet of the collection can be.
Kinds == [user : UserIds, isReply : BOOLEAN, retweets : {<<>>, <<"a1">>, <<"b2">>}]

\* A collection of PageLimit to MaxFeed tweets created one after the other:
\* posts of a1, but for one later tweet of any kind (a reply is a reply to
\* tweet 1), and each user may follow the other.
InitTimeline ==
  /\ \E fa, fb \in BOOLEAN :
       users = [u \in UserIds |->
                  [following |-> IF u = "a1" /\ fa THEN <<"b2">>
                                 ELSE IF u = "b2" /\ fb THEN <<"a1">> ELSE <<>>,
                   followers |-> IF u = "b2" /\ fa THEN <<"a1">>
                                 ELSE IF u = "a1" /\ fb THEN <<"b2">> ELSE <<>>]]
  /\ \E n \in PageLimit..MaxFeed :
       /\ nextId = n + 1
       /\ \E odd \in 2..n, kind \in Kinds :
            tweets = [t \in 1..n |->
              [user |-> IF t = odd THEN kind.user ELSE "a1",
               content |-> MaxLength,
               likes |-> <<>>,
               retweets |-> IF t = odd THEN kind.retweets ELSE <<>>,
               parent |-> IF t = odd /\ kind.isReply THEN 1 ELSE 0,
               isReply |-> t = odd /\ kind.isReply,
               createdAt |-> t,
               v |-> IF t = odd THEN Len(kind.retweets) ELSE 0]]
  /\ reqs = [s \in Slots |-> Idle]
  /\ resp = NoResp

NextTimeline == \E caller \in UserIds, q \in 0..MaxPage : Timeline(caller, q)

SpecTimeline == InitTimeline /\ [][NextTimeline]_vars

\* ------------------------------------------------------ users specification

InitFollow ==
  /\ users = InitUsers
  /\ tweets = <<>>
  /\ nextId = 1
  /\ reqs = [s \in Slots |-> Idle]
  /\ resp = NoResp

NextFollow ==
  \/ \E s \in Slots, caller \in UserIds, id \in FollowParams : FollowAuth(s, caller, id)
  \/ \E s \in Slots : FollowFind(s)
  \/ \E s \in Slots : FollowFirstUpdate(s)
  \/ \E s \in Slots : FollowSecondUpdate(s)
  \/ \E caller \in UserIds, path \in UsersPaths : UsersGet(caller, path)

SpecFollow == InitFollow /\ [][NextFollow]_vars

\* ----------------------------------------------------------- claims: likes

\* The step in which slot s answers a like or retweet request with 200.
Toggled(s, op) == reqs[s].op = op /\ reqs'[s].op = "idle" /\ resp'.status = 200

without(list, uid) == SelectSeq(list, LAMBDA x : x # uid)

\* What a 200 answer to a like or retweet of user u does to the stored list.
ToggleStep(before, after, u) ==
  /\ (\A i \in 1..Len(before) : before[i] # u) =>
       /\ after = <<u>> \o before
       /\ resp'.flag = TRUE
  /\ (\E i \in 1..Len(before) : before[i] = u) =>
       /\ after = without(before, u)
       /\ resp'.flag = FALSE
  /\ resp'.user = u

TogglesOneStep ==
  \A s \in Slots :
    /\ Toggled(s, "like") =>
         ToggleStep(tweets[reqs[s].tid].likes, tweets'[reqs[s].tid].likes, reqs[s].user)
    /\ Toggled(s, "retweet") =>
         ToggleStep(tweets[reqs[s].tid].retweets, tweets'[reqs[s].tid].retweets,
                    reqs[s].user)

\* The stored list after two successive requests of u that nothing
\* interleaves with.
twice(list, u) == toggle(toggle(list, u), u)

\* C2 as stated: a like (retweet) of an absent caller puts the caller at the
\* front and answers true, a like of a present caller removes it and
\* answers false, and two successive likes of one caller leave the list
\* exactly as it was.
C2_TogglePairRestoresList ==
  /\ [][TogglesOneStep]_vars
  /\ [](\A t \in DOMAIN tweets : \A u \in UserIds :
          /\ twice(tweets[t].likes, u) = tweets[t].likes
          /\ twice(tweets[t].retweets, u) = tweets[t].retweets)

\* C2 amended: the single request is as stated; two successive likes
\* (retweets) of one caller leave the list with the same members, and
\* exactly as it was when the caller was absent or at the front before.
C2_TogglePairRestoresMembers ==
  /\ [][TogglesOneStep]_vars
  /\ [](\A t \in DOMAIN tweets : \A u \in UserIds :
          \A list \in {tweets[t].likes, tweets[t].retweets} :
            /\ Range(twice(list, u)) = Range(list)
            /\ Len(twice(list, u)) = Len(list)
            /\ (u \notin Range(list) \/ list[1] = u) => twice(list, u) = list
            /\ (u \in Range(list) /\ list[1] # u) =>
                 twice(list, u) = <<u>> \o without(list, u))

\* A caller liked a tweet that another user had liked before, so the
\* caller is in the list but not at its front after the other likes again.
C2_Witness ==
  /\ resp.op = "like" /\ resp.status = 200 /\ resp.flag = TRUE
  /\ stored(resp.tid)
  /\ Len(tweets[resp.tid].likes) = 2

\* C8: no tweet's likes or retweets list holds a user twice, and a saved
\* like or retweet changes the membership of no user but its caller.
OthersKept(s) ==
  \A t \in DOMAIN tweets \cap DOMAIN tweets' :
    \A u \in UserIds \ {reqs[s].user} :
      /\ u \in Range(tweets[t].likes) <=> u \in Range(tweets'[t].likes)
      /\ u \in Range(tweets[t].retweets) <=> u \in Range(tweets'[t].retweets)

C8_LikesAreSets ==
  /\ [](\A t \in DOMAIN tweets :
          NoDuplicates(tweets[t].likes) /\ NoDuplicates(tweets[t].retweets))
  /\ [][\A s \in Slots :
          (reqs[s].op \in {"like", "retweet"} /\ reqs'[s].op = "idle") => OthersKept(s)]_vars

\* Two requests read the same tweet before either saved, one like was
\* stored and the other request was answered.
C8_Witness ==
  /\ resp.op = "like" /\ resp.status = 500
  /\ stored(resp.tid)
  /\ \E u \in UserIds \ {resp.user} : u \in Range(tweets[resp.tid].likes)

\* ---------------------------------------------------------- claims: tweets

\* A DELETE by a caller who does not own the stored tweet is answered 401
\* and leaves the tweets as they are; a DELETE of an id that is no stored
\* tweet is answered 404 and changes nothing.
DeleteRefused ==
  (resp'.op = "delete" /\ resp'.status # 200) =>
    \A s \in Slots, caller \in UserIds, tid \in 0..nextId :
      DeleteFind(s, caller, tid) =>
        /\ UNCHANGED <<tweets, users, reqs>>
        /\ resp'.status = IF stored(tid) THEN 401 ELSE 404
        /\ stored(tid) => tweets[tid].user # caller

\* Only the owner's DELETE reaches deleteOne, and it ends with 200 and the
\* tweet gone.
DeleteDone ==
  (resp'.op = "delete" /\ resp'.status = 200) =>
    \A s \in Slots :
      DeleteOne(s) =>
        /\ reqs[s].tid \notin DOMAIN tweets'
        /\ stored(reqs[s].tid) => tweets[reqs[s].tid].user = reqs[s].user

\* An id that names no stored tweet names none later, and GET answers 404.
StaysDeleted ==
  /\ \A tid \in 1..(nextId - 1) : ~stored(tid) => tid \notin DOMAIN tweets'
  /\ resp'.op = "get" =>
       \A tid \in 0..nextId :
         GetTweet(tid) => resp'.status = IF stored(tid) THEN 200 ELSE 404

\* C3: DELETE by a non-owner is answered 401 and leaves the tweet as it is;
\* by the owner it is answered 200 and every later GET of the id is
\* answered 404; DELETE of an id of no tweet is answered 404 and changes
\* nothing.
C3_DeleteByOwnerOnly == [][DeleteRefused /\ DeleteDone /\ StaysDeleted]_vars

\* The owner deleted the tweet while a like of it was in flight, and the
\* like's save found no document.
C3_Witness ==
  /\ resp.op = "like" /\ resp.status = 500
  /\ resp.tid < nextId /\ ~stored(resp.tid)

\* C6: POST /tweets and POST /tweets/:id/reply with empty or missing content
\* are answered 400 and store nothing; every stored tweet has content of 1
\* to 280 characters and an owner.
EmptyRejected ==
  /\ resp'.op = "post" =>
       \A caller \in UserIds :
         PostTweet(caller, 0) => resp'.status = 400 /\ UNCHANGED <<tweets, reqs>>
  /\ resp'.op = "reply" =>
       \A s \in Slots, caller \in UserIds, tid \in 0..nextId :
         ReplyFind(s, caller, tid, 0) => resp'.status = 400 /\ UNCHANGED <<tweets, reqs>>

C6_ContentRequired ==
  /\ [][EmptyRejected]_vars
  /\ [](\A t \in DOMAIN tweets :
          /\ tweets[t].content >= 1
          /\ tweets[t].content <= MaxLength
          /\ tweets[t].user \in UserIds)

\* A reply with empty content to a stored tweet was answered 400.
C6_Witness ==
  /\ resp.op = "reply" /\ resp.status = 400
  /\ stored(resp.tid)

\* C9: a stored tweet has a parent exactly when its reply flag is set; a
\* post stores no parent and a false flag, a reply stores parent :id and a
\* true flag and only after :id was found, a reply to an id of no tweet is
\* answered 404 and stores nothing, and no step changes the parent or the
\* flag of a stored tweet.
ParentSteps ==
  /\ (resp'.op = "post" /\ resp'.status = 200) =>
       \A caller \in UserIds, content \in ContentLengths :
         PostTweet(caller, content) =>
           /\ DOMAIN tweets' = DOMAIN tweets \cup {nextId}
           /\ tweets'[nextId].parent = 0 /\ tweets'[nextId].isReply = FALSE
  /\ (resp'.op = "reply" /\ resp'.status # 200) =>
       \A s \in Slots, caller \in UserIds, tid \in 0..nextId :
         (ReplyFind(s, caller, tid, MaxLength) /\ ~stored(tid)) =>
           resp'.status = 404 /\ UNCHANGED <<tweets, reqs>>
  /\ (resp'.op = "reply" /\ resp'.status = 200) =>
       \A s \in Slots :
         ReplySave(s) =>
           /\ DOMAIN tweets' = DOMAIN tweets \cup {nextId}
           /\ tweets'[nextId].parent = reqs[s].tid /\ tweets'[nextId].isReply = TRUE
  /\ \A s \in Slots :
       (reqs[s].op = "idle" /\ reqs'[s].op = "reply") => stored(reqs'[s].tid)
  /\ \A t \in DOMAIN tweets \cap DOMAIN tweets' :
       tweets'[t].parent = tweets[t].parent /\ tweets'[t].isReply = tweets[t].isReply

C9_ParentIffReply ==
  /\ [][ParentSteps]_vars
  /\ [](\A t \in DOMAIN tweets : (tweets[t].parent # 0) <=> tweets[t].isReply)

\* A reply was stored and a reply to an id of no tweet was answered 404.
C9_Witness ==
  /\ resp.op = "reply" /\ resp.status = 404
  /\ \E t \in DOMAIN tweets : tweets[t].isReply /\ tweets[t].parent # 0

\* C10: deleting a tweet leaves every other tweet and every user as they
\* are, so the replies to it are listed as before, newest first, while a
\* GET of the tweet is answered 404.
DeleteRemovesOne ==
  \A s \in Slots :
    DeleteOne(s) =>
      /\ \A t \in DOMAIN tweets \ {reqs[s].tid} :
           t \in DOMAIN tweets' /\ tweets'[t] = tweets[t]
      /\ users' = users
      /\ \A deleted \in {reqs[s].tid} :
           /\ replies(deleted)' = replies(deleted)
           /\ getTweet(deleted)'.status = 404

C10_DeleteDoesNotCascade ==
  /\ [][DeleteRemovesOne]_vars
  /\ [](\A tid \in 1..nextId :
          LET list == replies(tid) IN
          /\ Range(list) = {t \in DOMAIN tweets : tweets[t].parent = tid}
          /\ \A i, j \in 1..Len(list) :
               i < j => tweets[list[i]].createdAt > tweets[list[j]].createdAt)

\* A tweet with two replies was deleted and both replies are still listed.
C10_Witness ==
  /\ resp.op = "delete" /\ resp.status = 200
  /\ ~stored(resp.tid)
  /\ Len(replies(resp.tid)) = 2

\* --------------------------------------------------------- claims: timeline

\* The tweets the caller of the last timeline request may see.
Eligible ==
  {t \in DOMAIN tweets :
     /\ ~tweets[t].isReply
     /\ \/ tweets[t].user = resp.user
        \/ tweets[t].user \in Range(users[resp.user].following)
        \/ resp.user \in Range(tweets[t].retweets)}

\* The rank of an eligible tweet by descending creation time, from 1.
Rank(t) == 1 + Cardinality({x \in Eligible : tweets[x].createdAt > tweets[t].createdAt})

\* C5: page p of GET /tweets is exactly the eligible tweets of ranks
\* 10*(p-1)+1 to 10*p in rank order, a missing page being page 1.
C5_TimelinePage ==
  resp.op = "timeline" =>
    LET p == IF resp.page = 0 THEN 1 ELSE resp.page IN
    /\ resp.status = 200
    /\ Range(resp.list) =
         {t \in Eligible : Rank(t) >= 10 * (p - 1) + 1 /\ Rank(t) <= 10 * p}
    /\ \A i \in 1..Len(resp.list) : Rank(resp.list[i]) = 10 * (p - 1) + i

\* Page 2 was asked for a collection with a reply in it and eleven
\* eligible tweets, and one tweet came back.
C5_Witness ==
  /\ resp.op = "timeline" /\ resp.page = 2
  /\ Len(resp.list) = 1
  /\ \E t \in DOMAIN tweets : tweets[t].isReply

\* ------------------------------------------------------------ claims: users

\* C1: no following or followers list holds an identifier twice, no user is
\* in its own following or followers list, and a follow request whose
\* target is the caller is answered 400.
C1_FollowSetSemantics ==
  /\ \A u \in UserIds :
       /\ NoDuplicates(users[u].following)
       /\ NoDuplicates(users[u].followers)
       /\ u \notin Range(users[u].following)
       /\ u \notin Range(users[u].followers)
  /\ (resp.op = "follow" /\ castObjectId(resp.id) = resp.user) => resp.status = 400

\* C7: with no follow request in progress, B is in A's following list
\* exactly when A is in B's followers list.
C7_FollowSymmetric ==
  (\A s \in Slots : reqs[s].op # "follow") =>
    \A a, b \in UserIds :
      b \in Range(users[a].following) <=> a \in Range(users[b].followers)

\* C4: GET /users/suggestions by an authenticated caller is answered by the
\* suggestions handler with at most 5 users, none of them the caller or a
\* user the caller follows.
C4_SuggestionsAnswered ==
  resp.id = "suggestions" =>
    /\ resp.op = "suggestions"
    /\ resp.status = 200
    /\ Len(resp.list) <= SuggestionsLimit
    /\ \A i \in 1..Len(resp.list) :
         resp.list[i] \notin (Range(users[resp.user].following) \cup {resp.user})

====
